---- MODULE Spec2Model ----
(***************************************************************************)
(* Model of the cetus bootstrap, src/src/mysql-proxy-cli.c: main_cmdline   *)
(* as a sequence of stages, the option sources it merges, the keepalive    *)
(* supervisor hand-off and the exit_nicely funnel.                         *)
(*                                                                         *)
(* One behaviour follows one process through main_cmdline.  After the      *)
(* keepalive fork the behaviour follows either the supervisor or the child.*)
(***************************************************************************)
EXTENDS Integers, Sequences, FiniteSets, TLC

(***************************************************************************)
(* Bounds of the model.                                                    *)
(***************************************************************************)
\* number of command-line arguments after the program name
MaxArgs == 2
\* number of children one supervisor forks
MaxRestarts == 2
\* depth of the call stack a SIGSEGV interrupts
MaxStackDepth == 17

(***************************************************************************)
(* Program constants.                                                      *)
(***************************************************************************)
EXIT_SUCCESS == 0
EXIT_FAILURE == 1
\* frontend->default_pool_size as set by chassis_frontend_new
DefaultPoolSize == 100

\* MAX_ALLOWED_PACKET_FLOOR (1 KB), MAX_ALLOWED_PACKET_DEFAULT (32 MB) and
\* MAX_ALLOWED_PACKET_CEIL (1 GB): the header that defines them is not part
\* of the sources at hand
MAX_ALLOWED_PACKET_FLOOR == 1024
MAX_ALLOWED_PACKET_DEFAULT == 33554432
MAX_ALLOWED_PACKET_CEIL == 1073741824
\* smallest and largest value of an int
INT_MAX == 2147483647
INT_MIN == -2147483647 - 1

\* a double that holds a whole number of seconds is kept as twice that
\* number, so that halving it is exact
Seconds(n) == 2 * n

NULL == "NULL"
\* a path is the sequence of its components, absolute when it starts at "/"
NullPath == <<>>

\* the path each open call was handed: chassis_config_from_local_dir (771),
\* chassis_log_open (782), chassis_frontend_load_plugins (832),
\* chassis_frontend_write_pidfile (912), tc_log_init (954)
NothingOpened ==
    [conf |-> NullPath, log |-> NullPath, plugin |-> NullPath,
     pid |-> NullPath, xa |-> NullPath]

(***************************************************************************)
(* The command line.  An argument is a flag of a base option (parsed by    *)
(* chassis_frontend_init_base_options), of a core option (registered by    *)
(* chassis_frontend_set_chassis_options), of an option a plugin declares,  *)
(* a flag nothing declares, or a positional argument.                      *)
(***************************************************************************)
ArgOrder ==
    << "--version", "--defaults-file=cetus.conf", "--defaults-file",
       "--daemon", "--keepalive", "--verbose-shutdown",
       "--remote-conf-url=mysql://r", "--default-pool-size=200",
       "--default-username=cli_user", "--plugins=shard", "--plugins=proxy",
       "--proxy-address=:6001", "--bogus", "extra", "--pid-file=cetus.pid",
       "--max-open-files=abc", "--log-file=cetus.log", "--log-level=info" >>

Args == { ArgOrder[i] : i \in 1..Len(ArgOrder) }

\* the option an argument names ("" for a positional argument)
ArgOpt(a) ==
    CASE a = "--version" -> "version"
      [] a \in {"--defaults-file=cetus.conf", "--defaults-file"} -> "defaults-file"
      [] a = "--daemon" -> "daemon"
      [] a = "--keepalive" -> "keepalive"
      [] a = "--verbose-shutdown" -> "verbose-shutdown"
      [] a = "--remote-conf-url=mysql://r" -> "remote-conf-url"
      [] a = "--default-pool-size=200" -> "default-pool-size"
      [] a = "--default-username=cli_user" -> "default-username"
      [] a \in {"--plugins=shard", "--plugins=proxy"} -> "plugins"
      [] a = "--proxy-address=:6001" -> "proxy-address"
      [] a = "--bogus" -> "bogus"
      [] a = "--pid-file=cetus.pid" -> "pid-file"
      [] a = "--max-open-files=abc" -> "max-open-files"
      [] a = "--log-file=cetus.log" -> "log-file"
      [] a = "--log-level=info" -> "log-level"
      [] OTHER -> ""

IsFlag(a) == ArgOpt(a) # ""

\* the text an argument carries: ok is FALSE when the text does not parse as
\* the option's type (a missing argument, a non-number for an integer)
ArgText(a) ==
    CASE a = "--defaults-file=cetus.conf" -> [ok |-> TRUE, val |-> "cetus.conf"]
      [] a = "--defaults-file" -> [ok |-> FALSE, val |-> NULL]
      [] a = "--remote-conf-url=mysql://r" -> [ok |-> TRUE, val |-> "mysql://r"]
      [] a = "--default-pool-size=200" -> [ok |-> TRUE, val |-> 200]
      [] a = "--default-username=cli_user" -> [ok |-> TRUE, val |-> "cli_user"]
      [] a = "--plugins=shard" -> [ok |-> TRUE, val |-> "shard"]
      [] a = "--plugins=proxy" -> [ok |-> TRUE, val |-> "proxy"]
      [] a = "--proxy-address=:6001" -> [ok |-> TRUE, val |-> ":6001"]
      [] a = "--pid-file=cetus.pid" -> [ok |-> TRUE, val |-> <<"cetus.pid">>]
      [] a = "--max-open-files=abc" -> [ok |-> FALSE, val |-> 0]
      [] a = "--log-file=cetus.log" -> [ok |-> TRUE, val |-> <<"cetus.log">>]
      [] a = "--log-level=info" -> [ok |-> TRUE, val |-> "info"]
      [] OTHER -> [ok |-> TRUE, val |-> 1]

(***************************************************************************)
(* The option registry.                                                    *)
(***************************************************************************)
BaseOptions == {"version", "defaults-file"}

\* the options of chassis_frontend_set_chassis_options the model follows
CoreOptions ==
    {"verbose-shutdown", "daemon", "keepalive", "remote-conf-url",
     "default-pool-size", "default-username", "plugins", "pid-file",
     "max-open-files", "log-file", "log-level"}

\* the options the loaded plugins declare
PluginOptions == {"proxy-address"}

\* the destination slot of an option: a field of chassis_frontend_t, or of
\* the plugin's own configuration
Slot(o) ==
    CASE o = "version" -> "print_version"
      [] o = "defaults-file" -> "default_file"
      [] o = "verbose-shutdown" -> "verbose_shutdown"
      [] o = "daemon" -> "daemon_mode"
      [] o = "keepalive" -> "auto_restart"
      [] o = "remote-conf-url" -> "remote_config_url"
      [] o = "default-pool-size" -> "default_pool_size"
      [] o = "default-username" -> "default_username"
      [] o = "plugins" -> "plugin_names"
      [] o = "pid-file" -> "pid_file"
      [] o = "max-open-files" -> "max_files_number"
      [] o = "log-file" -> "log_filename"
      [] o = "log-level" -> "log_level"
      [] o = "proxy-address" -> "address"

\* OPTION_ARG_STRING_ARRAY appends, every other arity stores
Store(slots, o, v) ==
    IF o = "plugins"
    THEN [slots EXCEPT ![Slot(o)] = Append(@, v)]
    ELSE [slots EXCEPT ![Slot(o)] = v]

(***************************************************************************)
(* chassis_options_parse_cmdline: every flag of a registered option is     *)
(* stored in its slot and removed from argv; a flag of no registered       *)
(* option is left in argv when ignore_unknown is set and is an error       *)
(* otherwise; positional arguments are left in argv.                       *)
(***************************************************************************)
RECURSIVE ParseArgs(_, _, _, _, _)
ParseArgs(registry, ignore_unknown, rest, kept, slots) ==
    IF rest = <<>>
    THEN [ok |-> TRUE, argv |-> kept, slots |-> slots]
    ELSE LET a == Head(rest) IN
         IF ~IsFlag(a)
         THEN ParseArgs(registry, ignore_unknown, Tail(rest), Append(kept, a), slots)
         ELSE IF ArgOpt(a) \in registry
         THEN IF ArgText(a).ok
              THEN ParseArgs(registry, ignore_unknown, Tail(rest), kept,
                             Store(slots, ArgOpt(a), ArgText(a).val))
              ELSE [ok |-> FALSE, argv |-> kept \o rest, slots |-> slots]
         ELSE IF ignore_unknown
         THEN ParseArgs(registry, ignore_unknown, Tail(rest), Append(kept, a), slots)
         ELSE [ok |-> FALSE, argv |-> kept \o rest, slots |-> slots]

\* argv[0] is the program name and is never parsed
chassis_options_parse_cmdline(registry, ignore_unknown, av, slots) ==
    ParseArgs(registry, ignore_unknown, Tail(av), <<Head(av)>>, slots)

(***************************************************************************)
(* The keyfile and the remote configuration: key -> text mappings.         *)
(***************************************************************************)
KeyfileEntries ==
    { [key |-> "default-pool-size", text |-> "50"],
      [key |-> "default-username", text |-> "kf_user"],
      [key |-> "max-open-files", text |-> "1024"],
      [key |-> "max-open-files", text |-> "abc"],
      [key |-> "proxy-address", text |-> ":7001"] }

\* a keyfile holds each key at most once
Keyfiles ==
    { K \in SUBSET KeyfileEntries :
        \A e1, e2 \in K : e1.key = e2.key => e1 = e2 }

RemoteEntries ==
    { [key |-> "default-pool-size", text |-> "70"],
      [key |-> "proxy-address", text |-> ":8001"] }

RemoteConfigs == SUBSET RemoteEntries

\* the options of integer arity among those of the model
IntOptions == {"default-pool-size", "max-open-files"}

\* the number a text denotes, ok FALSE when it denotes none
ParseInt(text) ==
    CASE text = "50" -> [ok |-> TRUE, val |-> 50]
      [] text = "70" -> [ok |-> TRUE, val |-> 70]
      [] text = "1024" -> [ok |-> TRUE, val |-> 1024]
      [] OTHER -> [ok |-> FALSE, val |-> 0]

\* the value an entry gives its option: integers are parsed, strings taken
EntryValue(e) ==
    IF e.key \in IntOptions
    THEN ParseInt(e.text)
    ELSE [ok |-> TRUE, val |-> e.text]

\* the entries of a source that match the given options
Matching(entries, options) == { e \in entries : e.key \in options }

\* chassis_keyfile_to_options_with_error / chassis_config_parse_options:
\* every key matching one of the options is stored in its slot
RECURSIVE ApplyEntries(_, _)
ApplyEntries(entries, slots) ==
    IF entries = {} THEN slots
    ELSE LET e == CHOOSE x \in entries : TRUE IN
         ApplyEntries(entries \ {e}, Store(slots, e.key, EntryValue(e).val))

EntriesOk(entries) == \A e \in entries : EntryValue(e).ok

(***************************************************************************)
(* State of the process inside main_cmdline.                               *)
(***************************************************************************)
VARIABLES
    pc,             \* the stage main_cmdline executes next
    role,           \* "main", or after the keepalive fork "supervisor" / "child"
    argv0,          \* the command line the process was started with
    argv,           \* argv as the parsers leave it; argc is Len(argv)
    res,            \* per resource: pointer, number of acquisitions and releases
    fe,             \* the fields of chassis_frontend_t
    keyfile,        \* frontend->keyfile: [open, entries]
    opts,           \* chassis_options_t: [options, ignore_unknown, help_enabled]
    plugin_config,  \* the slots of the options the plugins declare
    srv,            \* the fields of chassis main_cmdline and init_parameters set
    remote,         \* the entries the remote configuration source serves
    log,            \* chassis_log: [min_lvl, log_filename, is_open]
    sigsegv,        \* SIGSEGV disposition: [handler, installs, resets, valgrind]
                    \* and what the handler did: [invocations, frames, level,
                    \* interrupted]
    slow_query_log_fp, \* "uninit", "NULL" or "open"; fclose_calls counts line 1015
    monitor,        \* cetus monitor thread: [running, starts, stops]
    sup,            \* keepalive: [spawned, last_child, ret, child_exit_status]
    exit_code,
    exit_location,  \* the source line G_STRLOC names
    shutdown,       \* [location_set, lines, funnel, tc_log_end, release_order,
                    \* events]
    effects,        \* what the process did to the OS: daemonized, pid file, ...
    failed,         \* the stage that reported failure, "none" otherwise
    trace           \* the stages executed so far, in order

vars == << pc, role, argv0, argv, res, fe, keyfile, opts, plugin_config, srv,
           remote, log, sigsegv, slow_query_log_fp, monitor, sup, exit_code,
           exit_location, shutdown, effects, failed, trace >>

Resources == {"gerr", "srv", "opts", "log", "frontend"}

\* the source order with the crash handler installed before the base
\* directory is established
StageSeq_CrashHandlerFirst ==
    << "init_glib", "log_new", "chassis_new", "frontend_new",
       "init_base_options", "open_config_file", "print_version",
       "options_new", "parse_cmdline_1", "keyfile_to_options",
       "remote_config", "install_sigsegv", "init_basedir", "plugin_dir",
       "resolve_path", "local_config", "log_open", "slow_query_log",
       "log_level", "mysqld_init", "default_plugins", "load_plugins",
       "init_plugins", "print_plugin_versions", "parse_cmdline_2",
       "check_argc", "daemonize", "keepalive", "write_pidfile", "mode_check",
       "username_check", "init_parameters", "xa_log", "fdlimit",
       "monitor_start", "mainloop", "monitor_stop" >>

\* the stages of main_cmdline in source order
StageSeq ==
    << "init_glib", "log_new", "chassis_new", "frontend_new",
       "init_base_options", "open_config_file", "print_version",
       "options_new", "parse_cmdline_1", "keyfile_to_options",
       "remote_config", "init_basedir", "install_sigsegv", "plugin_dir",
       "resolve_path", "local_config", "log_open", "slow_query_log",
       "log_level", "mysqld_init", "default_plugins", "load_plugins",
       "init_plugins", "print_plugin_versions", "parse_cmdline_2",
       "check_argc", "daemonize", "keepalive", "write_pidfile", "mode_check",
       "username_check", "init_parameters", "xa_log", "fdlimit",
       "monitor_start", "mainloop", "monitor_stop" >>

Stages == { StageSeq[i] : i \in 1..Len(StageSeq) }

FunnelPcs == {"exit_nicely", "reset_sigsegv", "release", "slow_close", "done"}

StageIndex(s) == CHOOSE i \in 1..Len(StageSeq) : StageSeq[i] = s

\* the statement that follows stage s in the source text
FallThrough(s) ==
    IF s \in Stages /\ StageIndex(s) < Len(StageSeq)
    THEN StageSeq[StageIndex(s) + 1]
    ELSE "exit_nicely"

(***************************************************************************)
(* chassis_frontend_new: g_slice_new0 zeroes the record, then the defaults.*)
(***************************************************************************)
chassis_frontend_new ==
    [ print_version |-> 0, default_file |-> NULL, verbose_shutdown |-> 0,
      daemon_mode |-> 0, auto_restart |-> 0, remote_config_url |-> NULL,
      default_pool_size |-> DefaultPoolSize, max_pool_size |-> 0,
      worker_id |-> 0,
      slave_delay_down_threshold_sec |-> Seconds(60),
      slave_delay_recover_threshold_sec |-> Seconds(0),
      cetus_max_allowed_packet |-> MAX_ALLOWED_PACKET_DEFAULT,
      default_username |-> NULL, plugin_names |-> <<>>,
      pid_file |-> NullPath, max_files_number |-> 0,
      log_filename |-> NullPath, log_level |-> NULL,
      base_dir |-> NullPath, plugin_dir |-> NullPath, conf_dir |-> NullPath,
      log_xa_filename |-> NullPath, invoke_dbg_on_crash |-> 0 ]

\* every subsequence of ArgOrder with at most MaxArgs arguments: the order
\* of the flags on the command line changes nothing a stage reads
CommandLines ==
    { <<"cetus">> \o SelectSeq(ArgOrder, LAMBDA a : a \in S) :
        S \in { T \in SUBSET Args : Cardinality(T) <= MaxArgs } }

Init ==
    /\ pc = "init_glib"
    /\ role = "main"
    /\ argv0 \in CommandLines
    /\ argv = argv0
    /\ res = [r \in Resources |-> [ptr |-> NULL, acquired |-> 0, released |-> 0]]
    /\ fe = chassis_frontend_new
    /\ keyfile = [open |-> FALSE, entries |-> {}]
    /\ opts = [options |-> {}, ignore_unknown |-> FALSE, help_enabled |-> FALSE]
    /\ plugin_config = [address |-> NULL]
    /\ srv = [ log_attached |-> FALSE, options_attached |-> FALSE,
               config_manager |-> NULL, base_dir |-> NullPath,
               plugin_dir |-> NullPath, conf_dir |-> NullPath,
               modules |-> <<>>, plugins_inited |-> FALSE, user_set |-> FALSE,
               default_username |-> NULL,
               mid_idle_connections |-> 0, max_idle_connections |-> 0,
               worker_id |-> 0, worker_id_written |-> FALSE,
               slave_delay_down_threshold_sec |-> Seconds(0),
               slave_delay_recover_threshold_sec |-> Seconds(0),
               cetus_max_allowed_packet |-> 0 ]
    /\ remote = {}
    /\ log = [min_lvl |-> "none", log_filename |-> NullPath, is_open |-> FALSE]
    /\ sigsegv = [handler |-> FALSE, installs |-> 0, resets |-> 0,
                  valgrind |-> "unknown", invocations |-> 0, frames |-> 0,
                  level |-> "none", interrupted |-> "none"]
    /\ slow_query_log_fp = [value |-> "uninit", fclose_calls |-> 0]
    /\ monitor = [running |-> FALSE, starts |-> 0, stops |-> 0]
    /\ sup = [spawned |-> 0, last_child |-> [kind |-> "none", status |-> 0],
              ret |-> 0, child_exit_status |-> EXIT_SUCCESS]
    /\ exit_code = EXIT_SUCCESS
    /\ exit_location = 641
    /\ shutdown = [location_set |-> FALSE, lines |-> <<>>, funnel |-> 0,
                   tc_log_end |-> 0, release_order |-> <<>>,
                   events |-> <<>>]
    /\ effects = [daemonized |-> FALSE, pidfile_written |-> FALSE,
                  versions_printed |-> 0, plugin_versions_printed |-> FALSE,
                  fdlimit_set |-> FALSE, xa_log_inited |-> FALSE,
                  local_discovery |-> FALSE, keyfile_applied |-> FALSE,
                  remote_applied |-> FALSE, mainloop_ok |-> FALSE,
                  opened |-> NothingOpened]
    /\ failed = "none"
    /\ trace = <<>>

(***************************************************************************)
(* Helpers shared by the stages.                                           *)
(***************************************************************************)
\* a pointer receives a fresh object
Acquire(r, rs) ==
    [rs EXCEPT ![r] = [ptr |-> "set", acquired |-> @.acquired + 1,
                       released |-> @.released]]

\* the object is freed; the pointer variable keeps its value
Free(r, rs) == [rs EXCEPT ![r].released = @ + 1]

\* g_clear_error: frees the error if there is one and sets the pointer to NULL
g_clear_error(rs) ==
    IF rs["gerr"].ptr = NULL THEN rs
    ELSE [rs EXCEPT !["gerr"] = [ptr |-> NULL, acquired |-> @.acquired,
                                 released |-> @.released + 1]]

\* the GOTO_EXIT macro
GOTO_EXIT_NoJump(status, line) ==
    /\ exit_code' = status
    /\ exit_location' = line
    /\ pc' = FallThrough(pc)

GOTO_EXIT_KeepCode(status, line) ==
    /\ exit_code' = exit_code
    /\ exit_location' = line
    /\ pc' = "exit_nicely"

GOTO_EXIT(status, line) ==
    /\ exit_code' = status
    /\ exit_location' = line
    /\ pc' = "exit_nicely"

\* a stage reports failure and leaves through GOTO_EXIT(EXIT_FAILURE)
FailAt(stage, line) ==
    /\ failed' = stage
    /\ GOTO_EXIT(EXIT_FAILURE, line)

Fail(line) == FailAt(pc, line)

\* the stage at pc commits and main_cmdline goes on with the next statement
Continue ==
    /\ pc' = FallThrough(pc)
    /\ UNCHANGED << exit_code, exit_location, failed >>

\* every stage is entered once: the trace records it
Enter(stage) ==
    /\ pc = stage
    /\ trace' = Append(trace, stage)

\* all slots an option can name, and their split back into the two records
AllSlots == fe @@ plugin_config
FrontendOf(slots) == [f \in DOMAIN fe |-> slots[f]]
PluginOf(slots) == [f \in DOMAIN plugin_config |-> slots[f]]

BaseDirOfExecutable == <<"/", "srv", "cetus">>

IsAbsolute(path) == path # NullPath /\ Head(path) = "/"

\* chassis_resolve_path: NULL and absolute paths are returned unchanged, a
\* relative path is joined to the base directory
chassis_resolve_path(base_dir, path) ==
    IF path = NullPath \/ IsAbsolute(path)
    THEN path
    ELSE base_dir \o path

(***************************************************************************)
(* Stages of main_cmdline, lines 643-703.                                  *)
(***************************************************************************)
\* 643-646
InitGlib ==
    /\ Enter("init_glib")
    /\ \/ Continue
       \/ Fail(645)
    /\ UNCHANGED << role, argv0, argv, res, fe, keyfile, opts, plugin_config,
                    srv, remote, log, sigsegv, slow_query_log_fp, monitor,
                    sup, shutdown, effects >>

\* 648-652
LogNew ==
    /\ Enter("log_new")
    /\ res' = Acquire("log", res)
    /\ log' = [log EXCEPT !.min_lvl = "message"]
    /\ Continue
    /\ UNCHANGED << role, argv0, argv, fe, keyfile, opts, plugin_config, srv,
                    remote, sigsegv, slow_query_log_fp, monitor, sup,
                    shutdown, effects >>

\* 654-660
ChassisNew ==
    /\ Enter("chassis_new")
    /\ \/ /\ res' = Acquire("srv", res)
          /\ srv' = [srv EXCEPT !.log_attached = TRUE]
          /\ Continue
       \/ /\ Fail(656)
          /\ UNCHANGED << res, srv >>
    /\ UNCHANGED << role, argv0, argv, fe, keyfile, opts, plugin_config,
                    remote, log, sigsegv, slow_query_log_fp, monitor, sup,
                    shutdown, effects >>

\* 662-666: g_slice_new0 does not return NULL and chassis_frontend_new writes
\* through the pointer before returning it, so the test of line 664 is dead
FrontendNew ==
    /\ Enter("frontend_new")
    /\ res' = Acquire("frontend", res)
    /\ fe' = chassis_frontend_new
    /\ Continue
    /\ UNCHANGED << role, argv0, argv, keyfile, opts, plugin_config, srv,
                    remote, log, sigsegv, slow_query_log_fp, monitor, sup,
                    shutdown, effects >>

\* 668-682: --version and --defaults-file, unknown options left in the list
InitBaseOptions ==
    /\ Enter("init_base_options")
    /\ LET r == chassis_options_parse_cmdline(BaseOptions, TRUE, argv, AllSlots) IN
       IF r.ok
       THEN /\ fe' = FrontendOf(r.slots)
            /\ argv' = r.argv
            /\ Continue
            /\ UNCHANGED res
       ELSE /\ res' = g_clear_error(Acquire("gerr", res))
            /\ Fail(681)
            /\ UNCHANGED << fe, argv >>
    /\ UNCHANGED << role, argv0, keyfile, opts, plugin_config, srv, remote,
                    log, sigsegv, slow_query_log_fp, monitor, sup, shutdown,
                    effects >>

\* 684-695: the file is read here, its content is an input of this stage
OpenConfigFile ==
    /\ Enter("open_config_file")
    /\ IF fe.default_file # NULL
       THEN \/ \E kf \in Keyfiles :
                 /\ keyfile' = [open |-> TRUE, entries |-> kf]
                 /\ Continue
                 /\ UNCHANGED res
            \/ /\ res' = g_clear_error(Acquire("gerr", res))
               /\ Fail(693)
               /\ UNCHANGED keyfile
       ELSE /\ Continue
            /\ UNCHANGED << keyfile, res >>
    /\ UNCHANGED << role, argv0, argv, fe, opts, plugin_config, srv, remote,
                    log, sigsegv, slow_query_log_fp, monitor, sup, shutdown,
                    effects >>

\* 697-703: the main version is printed, the process goes on
PrintVersion ==
    /\ Enter("print_version")
    /\ effects' = IF fe.print_version # 0
                  THEN [effects EXCEPT !.versions_printed = @ + 1]
                  ELSE effects
    /\ Continue
    /\ UNCHANGED << role, argv0, argv, res, fe, keyfile, opts, plugin_config,
                    srv, remote, log, sigsegv, slow_query_log_fp, monitor,
                    sup, shutdown >>

(***************************************************************************)
(* Lines 705-773: the option sources.                                      *)
(***************************************************************************)
\* 707: the first parse of the registry leaves unknown options alone
IgnoreUnknownFirstParse == TRUE

\* 705-710
OptionsNew ==
    /\ Enter("options_new")
    /\ res' = Acquire("opts", res)
    /\ opts' = [options |-> CoreOptions,
                ignore_unknown |-> IgnoreUnknownFirstParse,
                help_enabled |-> FALSE]
    /\ srv' = [srv EXCEPT !.options_attached = TRUE]
    /\ Continue
    /\ UNCHANGED << role, argv0, argv, fe, keyfile, plugin_config, remote,
                    log, sigsegv, slow_query_log_fp, monitor, sup, shutdown,
                    effects >>

\* 712-715: the error is left in gerr for the funnel
ParseCmdline1 ==
    /\ Enter("parse_cmdline_1")
    /\ LET r == chassis_options_parse_cmdline(opts.options, opts.ignore_unknown,
                                              argv, AllSlots) IN
       IF r.ok
       THEN /\ fe' = FrontendOf(r.slots)
            /\ argv' = r.argv
            /\ Continue
            /\ UNCHANGED res
       ELSE /\ res' = Acquire("gerr", res)
            /\ Fail(714)
            /\ UNCHANGED << fe, argv >>
    /\ UNCHANGED << role, argv0, keyfile, opts, plugin_config, srv, remote,
                    log, sigsegv, slow_query_log_fp, monitor, sup, shutdown,
                    effects >>

\* 717-724
KeyfileToOptions ==
    /\ Enter("keyfile_to_options")
    /\ IF keyfile.open
       THEN LET es == Matching(keyfile.entries, opts.options) IN
            IF EntriesOk(es)
            THEN /\ fe' = FrontendOf(ApplyEntries(es, AllSlots))
                 /\ effects' = [effects EXCEPT !.keyfile_applied = TRUE]
                 /\ Continue
                 /\ UNCHANGED res
            ELSE /\ res' = Acquire("gerr", res)
                 /\ Fail(722)
                 /\ UNCHANGED << fe, effects >>
       ELSE /\ Continue
            /\ UNCHANGED << fe, effects, res >>
    /\ UNCHANGED << role, argv0, argv, keyfile, opts, plugin_config, srv,
                    remote, log, sigsegv, slow_query_log_fp, monitor, sup,
                    shutdown >>

\* 726-736: what the remote source serves is an input of this stage
RemoteConfig ==
    /\ Enter("remote_config")
    /\ IF fe.remote_config_url # NULL
       THEN \/ /\ Fail(730)
               /\ UNCHANGED << srv, remote, fe, effects >>
            \/ \E rc \in RemoteConfigs :
                 /\ srv' = [srv EXCEPT !.config_manager = "remote"]
                 /\ remote' = rc
                 /\ \/ /\ Fail(734)
                       /\ UNCHANGED << fe, effects >>
                    \/ /\ fe' = FrontendOf(ApplyEntries(
                                    Matching(rc, opts.options), AllSlots))
                       /\ effects' = [effects EXCEPT !.remote_applied = TRUE]
                       /\ Continue
       ELSE /\ Continue
            /\ UNCHANGED << srv, remote, fe, effects >>
    /\ UNCHANGED << role, argv0, argv, res, keyfile, opts, plugin_config,
                    log, sigsegv, slow_query_log_fp, monitor, sup, shutdown >>

\* 738-740
InitBasedir ==
    /\ Enter("init_basedir")
    /\ \/ /\ fe' = [fe EXCEPT !.base_dir =
                       IF @ = NullPath THEN BaseDirOfExecutable ELSE @]
          /\ Continue
       \/ /\ Fail(739)
          /\ UNCHANGED fe
    /\ UNCHANGED << role, argv0, argv, res, keyfile, opts, plugin_config,
                    srv, remote, log, sigsegv, slow_query_log_fp, monitor,
                    sup, shutdown, effects >>

\* 742-753: RUNNING_ON_VALGRIND is a property of the environment, fixed the
\* first time the process asks for it
InstallSigsegv ==
    /\ Enter("install_sigsegv")
    /\ fe' = [fe EXCEPT !.invoke_dbg_on_crash = 1]
    /\ \E on_valgrind \in BOOLEAN :
         sigsegv' = IF on_valgrind
                    THEN [sigsegv EXCEPT !.valgrind = "yes"]
                    ELSE [sigsegv EXCEPT !.valgrind = "no",
                                         !.handler = TRUE,
                                         !.installs = @ + 1]
    /\ Continue
    /\ UNCHANGED << role, argv0, argv, res, keyfile, opts, plugin_config,
                    srv, remote, log, slow_query_log_fp, monitor, sup,
                    shutdown, effects >>

\* 755-764: srv->plugin_dir is copied before the default plugin directory
\* is derived
PluginDir ==
    /\ Enter("plugin_dir")
    /\ srv' = [srv EXCEPT !.base_dir = fe.base_dir,
                          !.plugin_dir = fe.plugin_dir]
    /\ fe' = [fe EXCEPT
                !.plugin_dir = IF @ = NullPath
                               THEN fe.base_dir \o <<"lib", "cetus", "plugins">>
                               ELSE @,
                !.conf_dir = IF @ = NullPath THEN <<"conf">> ELSE @]
    /\ Continue
    /\ UNCHANGED << role, argv0, argv, res, keyfile, opts, plugin_config,
                    remote, log, sigsegv, slow_query_log_fp, monitor, sup,
                    shutdown, effects >>

\* main_cmdline without the fix-up of the paths
resolve_path_Skip(base_dir, f) == f

\* 551-583
resolve_path(base_dir, f) ==
    [f EXCEPT !.log_filename = chassis_resolve_path(base_dir, @),
              !.pid_file = chassis_resolve_path(base_dir, @),
              !.plugin_dir = chassis_resolve_path(base_dir, @),
              !.conf_dir = chassis_resolve_path(base_dir, @)]

\* 766-768
ResolvePath ==
    /\ Enter("resolve_path")
    /\ fe' = resolve_path(srv.base_dir, fe)
    /\ srv' = [srv EXCEPT !.conf_dir = fe'.conf_dir]
    /\ Continue
    /\ UNCHANGED << role, argv0, argv, res, keyfile, opts, plugin_config,
                    remote, log, sigsegv, slow_query_log_fp, monitor, sup,
                    shutdown, effects >>

\* 770 with the test dropped: the local directory is always used
UseLocalConfig_Always(config_manager) == TRUE

\* 770: if no remote-config-url, the local config is used
UseLocalConfig(config_manager) == config_manager = NULL

\* 770-773
LocalConfig ==
    /\ Enter("local_config")
    /\ IF UseLocalConfig(srv.config_manager)
       THEN /\ srv' = [srv EXCEPT !.config_manager = "local"]
            /\ effects' = [effects EXCEPT !.local_discovery = TRUE,
                                          !.opened.conf = srv.conf_dir]
       ELSE UNCHANGED << srv, effects >>
    /\ Continue
    /\ UNCHANGED << role, argv0, argv, res, fe, keyfile, opts, plugin_config,
                    remote, log, sigsegv, slow_query_log_fp, monitor, sup,
                    shutdown >>

(***************************************************************************)
(* Lines 775-858: logging, engine, plugins.                                *)
(***************************************************************************)
\* 775-786
LogOpen ==
    /\ Enter("log_open")
    /\ LET name == IF fe.log_filename # NullPath
                   THEN fe.log_filename ELSE log.log_filename IN
       IF name # NullPath
       THEN /\ effects' = [effects EXCEPT !.opened.log = name]
            /\ \/ /\ log' = [log EXCEPT !.log_filename = name,
                                         !.is_open = TRUE]
                  /\ Continue
               \/ /\ log' = [log EXCEPT !.log_filename = name]
                  /\ Fail(785)
       ELSE /\ log' = log
            /\ Continue
            /\ UNCHANGED effects
    /\ UNCHANGED << role, argv0, argv, res, fe, keyfile, opts, plugin_config,
                    srv, remote, sigsegv, slow_query_log_fp, monitor, sup,
                    shutdown >>

\* 599-614: NULL without a main log, else whatever fopen returns
init_slow_query_log(main_log) ==
    IF main_log = NullPath THEN {"NULL"} ELSE {"NULL", "open"}

\* 787-790: a NULL handle is only warned about
SlowQueryLog ==
    /\ Enter("slow_query_log")
    /\ \E fp \in init_slow_query_log(log.log_filename) :
         slow_query_log_fp' = [slow_query_log_fp EXCEPT !.value = fp]
    /\ Continue
    /\ UNCHANGED << role, argv0, argv, res, fe, keyfile, opts, plugin_config,
                    srv, remote, log, sigsegv, monitor, sup, shutdown,
                    effects >>

\* 792-815: chassis_log_set_level decides whether the level name is known
LogLevel ==
    /\ Enter("log_level")
    /\ IF fe.log_level # NULL
       THEN \/ /\ log' = [log EXCEPT !.min_lvl = fe.log_level]
               /\ Continue
            \/ /\ Fail(801)
               /\ UNCHANGED log
       ELSE /\ log' = [log EXCEPT !.min_lvl = "critical"]
            /\ Continue
    /\ UNCHANGED << role, argv0, argv, res, fe, keyfile, opts, plugin_config,
                    srv, remote, sigsegv, slow_query_log_fp, monitor, sup,
                    shutdown, effects >>

\* 817-820
MysqldInit ==
    /\ Enter("mysqld_init")
    /\ \/ Continue
       \/ Fail(819)
    /\ UNCHANGED << role, argv0, argv, res, fe, keyfile, opts, plugin_config,
                    srv, remote, log, sigsegv, slow_query_log_fp, monitor,
                    sup, shutdown, effects >>

\* DEFAULT_PLUGIN where the build defines it, "proxy" where it does not
DefaultPluginName == "proxy"

\* the default name added to whatever was supplied
DefaultPluginNames_Always(plugin_names) ==
    Append(plugin_names, DefaultPluginName)

\* 822-830: the plugin list after the default was put in
DefaultPluginNames(plugin_names) ==
    IF plugin_names = <<>> THEN <<DefaultPluginName>> ELSE plugin_names

\* 822-830
DefaultPlugins ==
    /\ Enter("default_plugins")
    /\ fe' = [fe EXCEPT !.plugin_names = DefaultPluginNames(@)]
    /\ Continue
    /\ UNCHANGED << role, argv0, argv, res, keyfile, opts, plugin_config,
                    srv, remote, log, sigsegv, slow_query_log_fp, monitor,
                    sup, shutdown, effects >>

\* 832-836
LoadPlugins ==
    /\ Enter("load_plugins")
    /\ effects' = [effects EXCEPT !.opened.plugin = fe.plugin_dir]
    /\ \/ /\ srv' = [srv EXCEPT !.modules = fe.plugin_names]
          /\ Continue
       \/ /\ Fail(835)
          /\ UNCHANGED srv
    /\ UNCHANGED << role, argv0, argv, res, fe, keyfile, opts, plugin_config,
                    remote, log, sigsegv, slow_query_log_fp, monitor, sup,
                    shutdown >>

\* the options the loaded modules declare: proxy-address belongs to proxy
DeclaredOptions(modules) ==
    IF \E i \in 1..Len(modules) : modules[i] = "proxy"
    THEN PluginOptions ELSE {}

\* 838-851: chassis_frontend_init_plugins registers the options the plugins
\* declare and applies the keyfile and the remote configuration to them
InitPlugins ==
    /\ Enter("init_plugins")
    /\ LET declared == DeclaredOptions(srv.modules)
           kf == IF keyfile.open THEN Matching(keyfile.entries, declared) ELSE {}
           rc == IF srv.config_manager = "remote"
                 THEN Matching(remote, declared) ELSE {}
       IN \/ /\ EntriesOk(kf) /\ EntriesOk(rc)
             /\ opts' = [opts EXCEPT !.options = @ \cup declared]
             /\ plugin_config' =
                    PluginOf(ApplyEntries(rc, ApplyEntries(kf, AllSlots)))
             /\ srv' = [srv EXCEPT !.plugins_inited = TRUE]
             /\ Continue
             /\ UNCHANGED res
          \/ /\ res' = g_clear_error(Acquire("gerr", res))
             /\ Fail(850)
             /\ UNCHANGED << opts, plugin_config, srv >>
    /\ UNCHANGED << role, argv0, argv, fe, keyfile, remote, log, sigsegv,
                    slow_query_log_fp, monitor, sup, shutdown, effects >>

\* the version request not leaving main_cmdline
ExitAfterVersions_Never(f) == FALSE

\* 855: if (frontend->print_version)
ExitAfterVersions(f) == f.print_version # 0

\* 854-858: the version fast path ends here
PrintPluginVersions ==
    /\ Enter("print_plugin_versions")
    /\ IF ExitAfterVersions(fe)
       THEN /\ effects' = [effects EXCEPT !.plugin_versions_printed = TRUE]
            /\ GOTO_EXIT(EXIT_SUCCESS, 857)
            /\ UNCHANGED failed
       ELSE /\ Continue
            /\ UNCHANGED effects
    /\ UNCHANGED << role, argv0, argv, res, fe, keyfile, opts, plugin_config,
                    srv, remote, log, sigsegv, slow_query_log_fp, monitor,
                    sup, shutdown >>

(***************************************************************************)
(* Lines 860-910: the strict parse, daemonize, keepalive.                  *)
(***************************************************************************)
\* 860-881: the error is left in gerr for the funnel
ParseCmdline2 ==
    /\ Enter("parse_cmdline_2")
    /\ LET r == chassis_options_parse_cmdline(opts.options, FALSE, argv,
                                              AllSlots) IN
       /\ opts' = [opts EXCEPT !.ignore_unknown = FALSE, !.help_enabled = TRUE]
       /\ IF r.ok
          THEN /\ fe' = FrontendOf(r.slots)
               /\ plugin_config' = PluginOf(r.slots)
               /\ argv' = r.argv
               /\ Continue
               /\ UNCHANGED res
          ELSE /\ res' = Acquire("gerr", res)
               /\ Fail(880)
               /\ UNCHANGED << fe, plugin_config, argv >>
    /\ UNCHANGED << role, argv0, keyfile, srv, remote, log, sigsegv,
                    slow_query_log_fp, monitor, sup, shutdown, effects >>

\* 884: only the program name may be left
ResidualArguments_Off(av) == FALSE

ResidualArguments(av) == Len(av) > 1

\* 883-888
CheckArgc ==
    /\ Enter("check_argc")
    /\ IF ResidualArguments(argv)
       THEN Fail(887)
       ELSE Continue
    /\ UNCHANGED << role, argv0, argv, res, fe, keyfile, opts, plugin_config,
                    srv, remote, log, sigsegv, slow_query_log_fp, monitor,
                    sup, shutdown, effects >>

\* 890-894
Daemonize ==
    /\ Enter("daemonize")
    /\ effects' = IF fe.daemon_mode # 0
                  THEN [effects EXCEPT !.daemonized = TRUE]
                  ELSE effects
    /\ Continue
    /\ UNCHANGED << role, argv0, argv, res, fe, keyfile, opts, plugin_config,
                    srv, remote, log, sigsegv, slow_query_log_fp, monitor,
                    sup, shutdown >>

(***************************************************************************)
(* chassis_unix_proc_keepalive: the supervisor forks a child and waits for *)
(* it; a child killed by a signal is replaced, a child that exits has its  *)
(* status handed back.  Returns 0 in the child, 1 in the supervisor once   *)
(* a child exited, -1 when fork or wait fails.                             *)
(***************************************************************************)
ChildTerminations ==
    { [kind |-> "exited", status |-> EXIT_SUCCESS],
      [kind |-> "exited", status |-> EXIT_FAILURE],
      [kind |-> "signaled", status |-> 11] }

IsCrash(term) == term.kind = "signaled"

\* 896-898
Keepalive ==
    /\ Enter("keepalive")
    /\ pc' = IF fe.auto_restart # 0 THEN "keepalive_fork" ELSE FallThrough(pc)
    /\ UNCHANGED << exit_code, exit_location, failed >>
    /\ UNCHANGED << role, argv0, argv, res, fe, keyfile, opts, plugin_config,
                    srv, remote, log, sigsegv, slow_query_log_fp, monitor,
                    sup, shutdown, effects >>

KeepaliveFork ==
    /\ pc = "keepalive_fork"
    /\ \/ /\ sup.spawned < MaxRestarts
          /\ sup' = [sup EXCEPT !.spawned = @ + 1]
          /\ role' = "supervisor"
          /\ pc' = "keepalive_wait"
       \/ /\ sup' = [sup EXCEPT !.ret = 0]
          /\ role' = "child"
          /\ pc' = "keepalive_ret"
       \/ /\ sup' = [sup EXCEPT !.ret = -1]
          /\ role' = role
          /\ pc' = "keepalive_ret"
    /\ UNCHANGED << argv0, argv, res, fe, keyfile, opts, plugin_config, srv,
                    remote, log, sigsegv, slow_query_log_fp, monitor,
                    exit_code, exit_location, shutdown, effects, failed,
                    trace >>

KeepaliveWait ==
    /\ pc = "keepalive_wait"
    /\ \/ \E term \in ChildTerminations :
            IF IsCrash(term)
            THEN /\ sup' = [sup EXCEPT !.last_child = term]
                 /\ pc' = "keepalive_fork"
            ELSE /\ sup' = [sup EXCEPT !.last_child = term,
                                       !.child_exit_status = term.status,
                                       !.ret = 1]
                 /\ pc' = "keepalive_ret"
       \/ /\ sup' = [sup EXCEPT !.ret = -1]
          /\ pc' = "keepalive_ret"
    /\ UNCHANGED << role, argv0, argv, res, fe, keyfile, opts, plugin_config,
                    srv, remote, log, sigsegv, slow_query_log_fp, monitor,
                    exit_code, exit_location, shutdown, effects, failed,
                    trace >>

\* 903: the supervisor forwards the exit status of the child
ForwardedStatus_Success(child_exit_status) == EXIT_SUCCESS

ForwardedStatus(child_exit_status) == child_exit_status

\* 900-910 without its first branch: the supervisor goes on like the child
AfterKeepalive_NoGate(ret) ==
    IF ret < 0
    THEN FailAt("keepalive", 906)
    ELSE /\ pc' = "write_pidfile"
         /\ UNCHANGED << exit_code, exit_location, failed >>

\* 900-910
AfterKeepalive(ret) ==
    IF ret > 0
    THEN /\ exit_code' = ForwardedStatus(sup.child_exit_status)
         /\ pc' = "exit_nicely"
         /\ UNCHANGED << exit_location, failed >>
    ELSE IF ret < 0
    THEN FailAt("keepalive", 906)
    ELSE /\ pc' = "write_pidfile"
         /\ UNCHANGED << exit_code, exit_location, failed >>

KeepaliveReturn ==
    /\ pc = "keepalive_ret"
    /\ AfterKeepalive(sup.ret)
    /\ UNCHANGED << role, argv0, argv, res, fe, keyfile, opts, plugin_config,
                    srv, remote, log, sigsegv, slow_query_log_fp, monitor,
                    sup, shutdown, effects, trace >>

(***************************************************************************)
(* Lines 911-981: the stages of the serving process.                       *)
(***************************************************************************)
\* 911-918
WritePidfile ==
    /\ Enter("write_pidfile")
    /\ IF fe.pid_file # NullPath
       THEN \/ /\ effects' = [effects EXCEPT !.pidfile_written = TRUE,
                                             !.opened.pid = fe.pid_file]
               /\ Continue
               /\ UNCHANGED res
            \/ /\ res' = g_clear_error(Acquire("gerr", res))
               /\ Fail(916)
               /\ effects' = [effects EXCEPT !.opened.pid = fe.pid_file]
       ELSE /\ Continue
            /\ UNCHANGED << effects, res >>
    /\ UNCHANGED << role, argv0, argv, fe, keyfile, opts, plugin_config, srv,
                    remote, log, sigsegv, slow_query_log_fp, monitor, sup,
                    shutdown >>

\* 425-446
check_plugin_mode_valid(plugin_names) ==
    LET sharding_mode == \E i \in 1..Len(plugin_names) : plugin_names[i] = "shard"
        proxy_mode == \E i \in 1..Len(plugin_names) : plugin_names[i] = "proxy"
    IN ~(sharding_mode /\ proxy_mode)

\* 920-933
ModeCheck ==
    /\ Enter("mode_check")
    /\ srv' = [srv EXCEPT !.user_set = TRUE]
    /\ IF check_plugin_mode_valid(fe.plugin_names)
       THEN Continue
       ELSE Fail(932)
    /\ UNCHANGED << role, argv0, argv, res, fe, keyfile, opts, plugin_config,
                    remote, log, sigsegv, slow_query_log_fp, monitor, sup,
                    shutdown, effects >>

\* 935-938
UsernameCheck ==
    /\ Enter("username_check")
    /\ IF fe.default_username = NULL
       THEN Fail(937)
       ELSE Continue
    /\ UNCHANGED << role, argv0, argv, res, fe, keyfile, opts, plugin_config,
                    srv, remote, log, sigsegv, slow_query_log_fp, monitor,
                    sup, shutdown, effects >>

\* x << 1 on a 32-bit int as a two's-complement machine computes it
ShiftLeft1(x) ==
    IF x >= 1073741824
    THEN (x - 1073741824) * 2 - 1073741824 - 1073741824
    ELSE IF x < -1073741824
    THEN (x + 1073741824) * 2 + 1073741824 + 1073741824
    ELSE x * 2

\* 470: E1 << 1 is defined for an int E1 >= 0 whose double is an int; for
\* any other E1 the language leaves the result open: the value a two's
\* complement shift leaves, or any other int
ShiftLeft1Outcomes(x) ==
    IF 0 <= x /\ x < 1073741824
    THEN {x * 2}
    ELSE {ShiftLeft1(x), INT_MIN, -1, 0, 1, INT_MAX}

\* 467-471
MaxIdleConnections(mid, max_pool_size, shifted) ==
    IF max_pool_size >= mid THEN max_pool_size ELSE shifted

\* the mask taken one bit too narrow
WorkerIdMask_FiveBits(worker_id) == worker_id % 32

\* 485: worker_id & 0x3f, for the worker_id > 0 of line 484
WorkerIdMask(worker_id) == worker_id % 64

\* the recover threshold without the clamp of lines 519-523
SlaveDelayRecover_NoClamp(down, recover) ==
    IF recover > 0 THEN recover ELSE down \div 2

\* 517-526: the recover threshold; the doubles are whole seconds kept
\* doubled, so down / 2 is exact
SlaveDelayRecover(down, recover) ==
    IF recover > 0
    THEN IF recover > down THEN down ELSE recover
    ELSE down \div 2

\* CLAMP without its lower bound
CLAMP_NoFloor(x, low, high) == IF x > high THEN high ELSE x

\* 530: glib's CLAMP(x, low, high)
CLAMP(x, low, high) ==
    IF x > high THEN high ELSE IF x < low THEN low ELSE x

\* 458-531: the fields of srv the model follows; shifted is what line 470
\* computes
init_parameters(f, s, shifted) ==
    LET mid == f.default_pool_size
        down == f.slave_delay_down_threshold_sec
    IN
    [s EXCEPT !.default_username = f.default_username,
              !.mid_idle_connections = mid,
              !.max_idle_connections =
                  MaxIdleConnections(mid, f.max_pool_size, shifted),
              !.worker_id =
                  IF f.worker_id > 0 THEN WorkerIdMask(f.worker_id) ELSE @,
              !.worker_id_written =
                  IF f.worker_id > 0 THEN TRUE ELSE @,
              !.slave_delay_down_threshold_sec = down,
              !.slave_delay_recover_threshold_sec =
                  SlaveDelayRecover(down,
                                    f.slave_delay_recover_threshold_sec),
              !.cetus_max_allowed_packet =
                  CLAMP(f.cetus_max_allowed_packet,
                        MAX_ALLOWED_PACKET_FLOOR, MAX_ALLOWED_PACKET_CEIL)]

\* 940
InitParameters ==
    /\ Enter("init_parameters")
    /\ \E shifted \in ShiftLeft1Outcomes(fe.default_pool_size) :
           srv' = init_parameters(fe, srv, shifted)
    /\ Continue
    /\ UNCHANGED << role, argv0, argv, res, fe, keyfile, opts, plugin_config,
                    remote, log, sigsegv, slow_query_log_fp, monitor, sup,
                    shutdown, effects >>

\* 942-957
XaLog ==
    /\ Enter("xa_log")
    /\ fe' = [fe EXCEPT !.log_xa_filename =
                chassis_resolve_path(srv.base_dir,
                    IF @ = NullPath THEN <<"logs", "xa.log">> ELSE @)]
    /\ \/ /\ effects' = [effects EXCEPT !.xa_log_inited = TRUE,
                                        !.opened.xa = fe'.log_xa_filename]
          /\ Continue
       \/ /\ Fail(955)
          /\ effects' = [effects EXCEPT !.opened.xa = fe'.log_xa_filename]
    /\ UNCHANGED << role, argv0, argv, res, keyfile, opts, plugin_config,
                    srv, remote, log, sigsegv, slow_query_log_fp, monitor,
                    sup, shutdown >>

\* 959-970
Fdlimit ==
    /\ Enter("fdlimit")
    /\ IF fe.max_files_number # 0
       THEN \/ /\ effects' = [effects EXCEPT !.fdlimit_set = TRUE]
               /\ Continue
            \/ /\ Fail(966)
               /\ UNCHANGED effects
       ELSE /\ Continue
            /\ UNCHANGED effects
    /\ UNCHANGED << role, argv0, argv, res, fe, keyfile, opts, plugin_config,
                    srv, remote, log, sigsegv, slow_query_log_fp, monitor,
                    sup, shutdown >>

\* 973
MonitorStart ==
    /\ Enter("monitor_start")
    /\ monitor' = [monitor EXCEPT !.running = TRUE, !.starts = @ + 1]
    /\ Continue
    /\ UNCHANGED << role, argv0, argv, res, fe, keyfile, opts, plugin_config,
                    srv, remote, log, sigsegv, slow_query_log_fp, sup,
                    shutdown, effects >>

\* 975-979
Mainloop ==
    /\ Enter("mainloop")
    /\ \/ /\ effects' = [effects EXCEPT !.mainloop_ok = TRUE]
          /\ Continue
       \/ /\ Fail(978)
          /\ UNCHANGED effects
    /\ UNCHANGED << role, argv0, argv, res, fe, keyfile, opts, plugin_config,
                    srv, remote, log, sigsegv, slow_query_log_fp, monitor,
                    sup, shutdown >>

\* 981
MonitorStop ==
    /\ Enter("monitor_stop")
    /\ monitor' = [monitor EXCEPT !.running = FALSE, !.stops = @ + 1]
    /\ Continue
    /\ UNCHANGED << role, argv0, argv, res, fe, keyfile, opts, plugin_config,
                    srv, remote, log, sigsegv, slow_query_log_fp, sup,
                    shutdown, effects >>

(***************************************************************************)
(* Lines 983-1018: the exit_nicely funnel.                                 *)
(***************************************************************************)
\* 999-1004: the terminal line, if there is a frontend that does not only
\* print the version
ShutdownLines(frontend_ptr, f, code) ==
    IF frontend_ptr # NULL /\ f.print_version = 0
    THEN << [level |-> IF f.verbose_shutdown # 0 THEN "critical" ELSE "message",
             code |-> code] >>
    ELSE << >>

\* 983-1004
ExitNicely ==
    /\ pc = "exit_nicely"
    /\ exit_location' = IF exit_code = 0 THEN 988 ELSE exit_location
    /\ shutdown' = [shutdown EXCEPT
                      !.funnel = @ + 1,
                      !.location_set = TRUE,
                      !.lines = @ \o ShutdownLines(res["frontend"].ptr, fe,
                                                   exit_code)]
    /\ pc' = "reset_sigsegv"
    /\ UNCHANGED << role, argv0, argv, res, fe, keyfile, opts, plugin_config,
                    srv, remote, log, sigsegv, slow_query_log_fp, monitor,
                    sup, exit_code, effects, failed, trace >>

\* a funnel that leaves the disposition of SIGSEGV alone
ShouldResetSigsegv_Never(frontend, f, on_valgrind) == FALSE

\* 1009: frontend && frontend->invoke_dbg_on_crash && !(RUNNING_ON_VALGRIND)
ShouldResetSigsegv(frontend, f, on_valgrind) ==
    /\ frontend # NULL
    /\ f.invoke_dbg_on_crash # 0
    /\ on_valgrind = "no"

\* 1006-1012
ResetSigsegv ==
    /\ pc = "reset_sigsegv"
    /\ \E on_valgrind \in (IF sigsegv.valgrind = "unknown"
                           THEN {"yes", "no"} ELSE {sigsegv.valgrind}) :
         sigsegv' = IF ShouldResetSigsegv(res["frontend"].ptr, fe, on_valgrind)
                    THEN [sigsegv EXCEPT !.handler = FALSE, !.resets = @ + 1,
                                         !.valgrind = on_valgrind]
                    ELSE [sigsegv EXCEPT !.valgrind = on_valgrind]
    /\ pc' = "release"
    /\ UNCHANGED << role, argv0, argv, res, fe, keyfile, opts, plugin_config,
                    srv, remote, log, slow_query_log_fp, monitor, sup,
                    exit_code, exit_location, shutdown, effects, failed,
                    trace >>

\* one release call of release_resouces_when_exit: r is freed when the
\* pointer is not NULL
FreeIfSet(r, st) ==
    IF st.rs[r].ptr # NULL
    THEN [rs |-> Free(r, st.rs),
          order |-> Append(st.order, r),
          events |-> Append(st.events,
                            [op |-> r, log_closed |-> st.log_closed]),
          log_closed |-> (st.log_closed \/ r = "log")]
    ELSE st

\* a g_debug message or the tc_log_end call of release_resouces_when_exit,
\* with whether chassis_log_free has closed the log by then
Emit(op, st) ==
    [st EXCEPT !.events = Append(@, [op |-> op, log_closed |-> st.log_closed])]

\* 535-538: the state release_resouces_when_exit starts from
ReleaseStart(rs) ==
    [rs |-> rs, order |-> <<>>, events |-> <<>>, log_closed |-> FALSE]

\* 535-549 with the log closed before the service object is freed
release_resouces_when_exit_LogFirst(rs) ==
    FreeIfSet("frontend",
      Emit("tc_log_end",
        Emit("g_debug",
          Emit("g_debug",
            FreeIfSet("opts",
              Emit("g_debug",
                FreeIfSet("srv",
                  FreeIfSet("log",
                    FreeIfSet("gerr", ReleaseStart(rs))))))))))

\* 535-549 with the option registry never freed
release_resouces_when_exit_LeakOpts(rs) ==
    FreeIfSet("frontend",
      Emit("tc_log_end",
        FreeIfSet("log",
          Emit("g_debug",
            Emit("g_debug",
              Emit("g_debug",
                FreeIfSet("srv",
                  FreeIfSet("gerr", ReleaseStart(rs)))))))))

\* 535-549: gerr, srv, a g_debug, opts, two g_debug, log, tc_log_end, then
\* the frontend; chassis_log_free and chassis_frontend_free return at once
\* on NULL
release_resouces_when_exit(rs) ==
    FreeIfSet("frontend",
      Emit("tc_log_end",
        FreeIfSet("log",
          Emit("g_debug",
            Emit("g_debug",
              FreeIfSet("opts",
                Emit("g_debug",
                  FreeIfSet("srv",
                    FreeIfSet("gerr", ReleaseStart(rs))))))))))

\* 1014
Release ==
    /\ pc = "release"
    /\ LET r == release_resouces_when_exit(res) IN
       /\ res' = r.rs
       /\ shutdown' = [shutdown EXCEPT !.release_order = @ \o r.order,
                                       !.events = @ \o r.events,
                                       !.tc_log_end = @ + 1]
    /\ log' = [log EXCEPT !.is_open = FALSE]
    /\ pc' = "slow_close"
    /\ UNCHANGED << role, argv0, argv, fe, keyfile, opts, plugin_config, srv,
                    remote, sigsegv, slow_query_log_fp, monitor, sup,
                    exit_code, exit_location, effects, failed, trace >>

\* 1015-1017: a jump to exit_nicely from before line 787 leaves the handle
\* uninitialised, and the test reads whatever the stack holds
SlowClose ==
    /\ pc = "slow_close"
    /\ \E seen \in (IF slow_query_log_fp.value = "uninit"
                    THEN {"NULL", "garbage"}
                    ELSE {slow_query_log_fp.value}) :
         slow_query_log_fp' =
             IF seen = "NULL"
             THEN slow_query_log_fp
             ELSE [slow_query_log_fp EXCEPT !.fclose_calls = @ + 1]
    /\ pc' = "done"
    /\ UNCHANGED << role, argv0, argv, res, fe, keyfile, opts, plugin_config,
                    srv, remote, log, sigsegv, monitor, sup, exit_code,
                    exit_location, shutdown, effects, failed, trace >>

Next ==
    \/ InitGlib
    \/ LogNew
    \/ ChassisNew
    \/ FrontendNew
    \/ InitBaseOptions
    \/ OpenConfigFile
    \/ PrintVersion
    \/ OptionsNew
    \/ ParseCmdline1
    \/ KeyfileToOptions
    \/ RemoteConfig
    \/ InitBasedir
    \/ InstallSigsegv
    \/ PluginDir
    \/ ResolvePath
    \/ LocalConfig
    \/ LogOpen
    \/ SlowQueryLog
    \/ LogLevel
    \/ MysqldInit
    \/ DefaultPlugins
    \/ LoadPlugins
    \/ InitPlugins
    \/ PrintPluginVersions
    \/ ParseCmdline2
    \/ CheckArgc
    \/ Daemonize
    \/ Keepalive
    \/ KeepaliveFork
    \/ KeepaliveWait
    \/ KeepaliveReturn
    \/ WritePidfile
    \/ ModeCheck
    \/ UsernameCheck
    \/ InitParameters
    \/ XaLog
    \/ Fdlimit
    \/ MonitorStart
    \/ Mainloop
    \/ MonitorStop
    \/ ExitNicely
    \/ ResetSigsegv
    \/ Release
    \/ SlowClose

Spec == Init /\ [][Next]_vars

(***************************************************************************)
(* init_parameters and release_resouces_when_exit applied to drawn inputs. *)
(* A behaviour starts where main_cmdline calls init_parameters (line 940)  *)
(* in a run of `cetus --default-username=cli_user` with the numeric        *)
(* options as the option sources left them, and goes on to the return.     *)
(***************************************************************************)
\* values of default-pool-size and max-pool-size (OPTION_ARG_INT, 276-284)
PoolSizeInputs ==
    {INT_MIN, -1073741825, -1073741824, -10, -5, -1, 0, 1, 50, 100, 200,
     1073741823, 1073741824, INT_MAX}

\* values of worker_id (OPTION_ARG_INT, 301-305)
WorkerIdInputs == {INT_MIN, -1, 0, 1, 2, 63, 64, 65, 127, 128, INT_MAX}

\* values of slave-delay-down and slave-delay-recover (OPTION_ARG_DOUBLE,
\* 327-335), whole seconds
SlaveDelayInputs == { Seconds(n) : n \in {-10, -1, 0, 1, 30, 60, 61} }

\* values of max-allowed-packet (OPTION_ARG_INT, 386-389)
MaxAllowedPacketInputs ==
    {INT_MIN, -1, 0, 1023, 1024, 1025, 33554432, 1073741823, 1073741824,
     1073741825, INT_MAX}

\* the frontend record of that run when init_parameters is called
FrontendAtInitParameters ==
    [chassis_frontend_new EXCEPT
        !.default_username = "cli_user",
        !.plugin_names = <<"proxy">>,
        !.base_dir = BaseDirOfExecutable,
        !.plugin_dir = BaseDirOfExecutable \o <<"lib", "cetus", "plugins">>,
        !.conf_dir = BaseDirOfExecutable \o <<"conf">>,
        !.invoke_dbg_on_crash = 1]

\* the numeric options drawn, one group of options at a time: no output of
\* init_parameters reads two groups
FrontendInputs ==
    { [FrontendAtInitParameters EXCEPT !.default_pool_size = d,
                                       !.max_pool_size = m] :
        d \in PoolSizeInputs, m \in PoolSizeInputs }
    \cup { [FrontendAtInitParameters EXCEPT !.worker_id = w] :
             w \in WorkerIdInputs }
    \cup { [FrontendAtInitParameters EXCEPT
                !.slave_delay_down_threshold_sec = down,
                !.slave_delay_recover_threshold_sec = recover] :
             down \in SlaveDelayInputs, recover \in SlaveDelayInputs }
    \cup { [FrontendAtInitParameters EXCEPT !.cetus_max_allowed_packet = p] :
             p \in MaxAllowedPacketInputs }

UnitInit ==
    /\ pc = "init_parameters"
    /\ role = "main"
    /\ argv0 = <<"cetus", "--default-username=cli_user">>
    /\ argv = <<"cetus">>
    /\ res = [r \in Resources |->
                IF r = "gerr"
                THEN [ptr |-> NULL, acquired |-> 0, released |-> 0]
                ELSE [ptr |-> "set", acquired |-> 1, released |-> 0]]
    /\ fe \in FrontendInputs
    /\ keyfile = [open |-> FALSE, entries |-> {}]
    /\ opts = [options |-> CoreOptions \cup PluginOptions,
               ignore_unknown |-> FALSE, help_enabled |-> TRUE]
    /\ plugin_config = [address |-> NULL]
    /\ srv = [ log_attached |-> TRUE, options_attached |-> TRUE,
               config_manager |-> "local", base_dir |-> BaseDirOfExecutable,
               plugin_dir |-> NullPath,
               conf_dir |-> BaseDirOfExecutable \o <<"conf">>,
               modules |-> <<"proxy">>, plugins_inited |-> TRUE,
               user_set |-> TRUE, default_username |-> NULL,
               mid_idle_connections |-> 0, max_idle_connections |-> 0,
               worker_id |-> 0, worker_id_written |-> FALSE,
               slave_delay_down_threshold_sec |-> Seconds(0),
               slave_delay_recover_threshold_sec |-> Seconds(0),
               cetus_max_allowed_packet |-> 0 ]
    /\ remote = {}
    /\ log = [min_lvl |-> "critical", log_filename |-> NullPath,
              is_open |-> FALSE]
    /\ sigsegv = [handler |-> TRUE, installs |-> 1, resets |-> 0,
                  valgrind |-> "no", invocations |-> 0, frames |-> 0,
                  level |-> "none", interrupted |-> "none"]
    /\ slow_query_log_fp = [value |-> "NULL", fclose_calls |-> 0]
    /\ monitor = [running |-> FALSE, starts |-> 0, stops |-> 0]
    /\ sup = [spawned |-> 0, last_child |-> [kind |-> "none", status |-> 0],
              ret |-> 0, child_exit_status |-> EXIT_SUCCESS]
    /\ exit_code = EXIT_SUCCESS
    /\ exit_location = 641
    /\ shutdown = [location_set |-> FALSE, lines |-> <<>>, funnel |-> 0,
                   tc_log_end |-> 0, release_order |-> <<>>,
                   events |-> <<>>]
    /\ effects = [daemonized |-> FALSE, pidfile_written |-> FALSE,
                  versions_printed |-> 0, plugin_versions_printed |-> FALSE,
                  fdlimit_set |-> FALSE, xa_log_inited |-> FALSE,
                  local_discovery |-> TRUE, keyfile_applied |-> FALSE,
                  remote_applied |-> FALSE, mainloop_ok |-> FALSE,
                  opened |-> [NothingOpened EXCEPT
                      !.conf = BaseDirOfExecutable \o <<"conf">>,
                      !.plugin = BaseDirOfExecutable
                                    \o <<"lib", "cetus", "plugins">>]]
    /\ failed = "none"
    /\ trace = SubSeq(StageSeq, 1, StageIndex("username_check"))

\* 403: void *array[16]
BacktraceFrames == 16

\* 407: backtrace(array, size) stores at most size return addresses
backtrace(depth, size) == IF depth < size THEN depth ELSE size

\* the handler returning to the code it interrupted
AfterHandler_Returns(interrupted) == interrupted

\* 421: abort() does not return: the process is gone
AfterHandler(interrupted) == "aborted"

\* 399-423: a SIGSEGV arrives while sigsegv_handler is the disposition:
\* log_backtrace logs the frames it obtained with g_warning (memory for the
\* symbols is taken to be available), then the handler aborts
SigsegvHandler ==
    /\ sigsegv.handler
    /\ pc \notin {"done", "aborted"}
    /\ \E depth \in 0..MaxStackDepth :
         sigsegv' = [sigsegv EXCEPT
                        !.invocations = @ + 1,
                        !.frames = backtrace(depth, BacktraceFrames),
                        !.level = "warning",
                        !.interrupted = pc]
    /\ pc' = AfterHandler(pc)
    /\ UNCHANGED << role, argv0, argv, res, fe, keyfile, opts, plugin_config,
                    srv, remote, log, slow_query_log_fp, monitor, sup,
                    exit_code, exit_location, shutdown, effects, failed,
                    trace >>

\* release_resouces_when_exit called once more with the arguments of the
\* call of line 1014: main_cmdline passes its pointers by value, so they
\* still hold what they held
ReleaseAgain ==
    /\ pc = "slow_close"
    /\ shutdown.tc_log_end = 1
    /\ LET r == release_resouces_when_exit(res) IN
       /\ res' = r.rs
       /\ shutdown' = [shutdown EXCEPT !.release_order = @ \o r.order,
                                       !.events = @ \o r.events,
                                       !.tc_log_end = @ + 1]
    /\ log' = [log EXCEPT !.is_open = FALSE]
    /\ UNCHANGED << pc, role, argv0, argv, fe, keyfile, opts, plugin_config,
                    srv, remote, sigsegv, slow_query_log_fp, monitor, sup,
                    exit_code, exit_location, effects, failed, trace >>

UnitNext ==
    \/ InitParameters
    \/ XaLog
    \/ Fdlimit
    \/ MonitorStart
    \/ Mainloop
    \/ MonitorStop
    \/ ExitNicely
    \/ ResetSigsegv
    \/ Release
    \/ ReleaseAgain
    \/ SlowClose
    \/ SigsegvHandler

UnitSpec == UnitInit /\ [][UnitNext]_vars

(***************************************************************************)
(* Properties.                                                             *)
(***************************************************************************)
Ran(stage) == \E i \in 1..Len(trace) : trace[i] = stage

Occurrences(stage) == Cardinality({ i \in 1..Len(trace) : trace[i] = stage })

IsPrefix(s, t) == Len(s) <= Len(t) /\ \A i \in 1..Len(s) : s[i] = t[i]

\* C1: every return of main_cmdline has passed the exit_nicely funnel exactly
\* once, and then every resource that was acquired (error object, service
\* object, option registry, log handle, frontend record) has been released
\* exactly once and nothing that was never acquired has been released.
C1_FunnelReleasesOnce ==
    /\ \A r \in Resources : res[r].released <= res[r].acquired
    /\ pc = "done" =>
         /\ shutdown.funnel = 1
         /\ \A r \in Resources :
              res[r].acquired <= 1 /\ res[r].released = res[r].acquired

\* the strict parse failed: its error and all four objects go through the funnel
C1_Witness ==
    /\ pc = "done"
    /\ failed = "parse_cmdline_2"
    /\ \A r \in Resources : res[r].acquired = 1 /\ res[r].released = 1

\* C2: in a process that is not the supervisor the exit code is non-zero
\* whenever a stage reported failure, and it is 0 only when the mainloop
\* returned success or the version fast path completed.
C2_ExitCode ==
    (pc = "done" /\ role # "supervisor") =>
        /\ failed # "none" => exit_code # 0
        /\ exit_code = 0 =>
             \/ effects.mainloop_ok /\ Ran("monitor_stop")
             \/ effects.plugin_versions_printed /\ fe.print_version # 0

C2_Witness ==
    /\ pc = "done"
    /\ role = "child"
    /\ failed = "mainloop"
    /\ exit_code = EXIT_FAILURE

\* C3: once a stage has failed no later stage executes: the failed stage is
\* the last one of the trace, it ran once, the process is in the funnel, and
\* nothing a later stage does has happened.
C3_FailFast ==
    failed # "none" =>
        /\ pc \in FunnelPcs
        /\ trace[Len(trace)] = failed
        /\ Occurrences(failed) = 1
        /\ \A i \in 1..Len(trace) : StageIndex(trace[i]) = i
        /\ StageIndex(failed) < StageIndex("load_plugins") => srv.modules = <<>>
        /\ StageIndex(failed) < StageIndex("keepalive") => sup.spawned = 0
        /\ StageIndex(failed) < StageIndex("write_pidfile")
              => ~effects.pidfile_written
        /\ StageIndex(failed) < StageIndex("monitor_start") => monitor.starts = 0
        /\ StageIndex(failed) < StageIndex("mainloop") => ~effects.mainloop_ok

C3_Witness ==
    /\ pc = "done"
    /\ failed = "init_basedir"
    /\ fe.auto_restart # 0
    /\ fe.pid_file # NullPath

(***************************************************************************)
(* The stage list of the design, and the stage each step of main_cmdline   *)
(* belongs to ("" for a step the list does not name).                      *)
(***************************************************************************)
SpecStageOrder ==
    << "init-runtime", "open-log(stderr)", "create-service-object",
       "parse-pass-1", "load-local-or-remote-config", "install-crash-handler",
       "resolve-base-and-plugin-dirs", "resolve-paths", "open-log(file)",
       "apply-log-level", "init-engine", "select-default-plugins-if-none",
       "load-plugins", "init-plugins", "print-versions-if-requested",
       "parse-pass-2-strict", "daemonize-if-requested",
       "supervise-if-requested", "write-pidfile",
       "apply-runtime-limits(fd-limit)", "start-background-monitors",
       "run-mainloop", "stop-background-monitors" >>

SpecStageOf(s) ==
    CASE s = "init_glib" -> "init-runtime"
      [] s = "log_new" -> "open-log(stderr)"
      [] s \in {"chassis_new", "frontend_new"} -> "create-service-object"
      [] s \in {"init_base_options", "open_config_file", "print_version",
                "options_new", "parse_cmdline_1"} -> "parse-pass-1"
      [] s \in {"keyfile_to_options", "remote_config", "local_config"}
            -> "load-local-or-remote-config"
      [] s = "install_sigsegv" -> "install-crash-handler"
      [] s \in {"init_basedir", "plugin_dir"} -> "resolve-base-and-plugin-dirs"
      [] s = "resolve_path" -> "resolve-paths"
      [] s \in {"log_open", "slow_query_log"} -> "open-log(file)"
      [] s = "log_level" -> "apply-log-level"
      [] s = "mysqld_init" -> "init-engine"
      [] s = "default_plugins" -> "select-default-plugins-if-none"
      [] s = "load_plugins" -> "load-plugins"
      [] s = "init_plugins" -> "init-plugins"
      [] s = "print_plugin_versions" -> "print-versions-if-requested"
      [] s \in {"parse_cmdline_2", "check_argc"} -> "parse-pass-2-strict"
      [] s = "daemonize" -> "daemonize-if-requested"
      [] s = "keepalive" -> "supervise-if-requested"
      [] s = "write_pidfile" -> "write-pidfile"
      [] s = "fdlimit" -> "apply-runtime-limits(fd-limit)"
      [] s = "monitor_start" -> "start-background-monitors"
      [] s = "mainloop" -> "run-mainloop"
      [] s = "monitor_stop" -> "stop-background-monitors"
      [] OTHER -> ""

\* the same list with the three places where the source differs: the base
\* directory is established before the crash handler is installed, the plugin
\* directory after it, and the local configuration directory is looked up
\* after the paths are resolved
AmendedStageOrder ==
    << "init-runtime", "open-log(stderr)", "create-service-object",
       "parse-pass-1", "apply-keyfile-and-remote-config", "resolve-base-dir",
       "install-crash-handler", "resolve-plugin-dir", "resolve-paths",
       "local-config-discovery", "open-log(file)",
       "apply-log-level", "init-engine", "select-default-plugins-if-none",
       "load-plugins", "init-plugins", "print-versions-if-requested",
       "parse-pass-2-strict", "daemonize-if-requested",
       "supervise-if-requested", "write-pidfile",
       "apply-runtime-limits(fd-limit)", "start-background-monitors",
       "run-mainloop", "stop-background-monitors" >>

AmendedStageOf(s) ==
    CASE s \in {"keyfile_to_options", "remote_config"}
            -> "apply-keyfile-and-remote-config"
      [] s = "init_basedir" -> "resolve-base-dir"
      [] s = "plugin_dir" -> "resolve-plugin-dir"
      [] s = "local_config" -> "local-config-discovery"
      [] OTHER -> SpecStageOf(s)

\* the stages of a trace: unnamed steps dropped, the steps of one stage merged
RECURSIVE StagesOf(_, _, _)
StagesOf(tr, StageOf(_), acc) ==
    IF tr = <<>> THEN acc
    ELSE LET st == StageOf(Head(tr)) IN
         IF st = "" \/ (acc # <<>> /\ acc[Len(acc)] = st)
         THEN StagesOf(Tail(tr), StageOf, acc)
         ELSE StagesOf(Tail(tr), StageOf, Append(acc, st))

TrackedOptions == {"default-pool-size", "default-username", "proxy-address"}

\* the well-formed values the command line gives option o
CliValues(o) ==
    { ArgText(argv0[i]).val :
        i \in { j \in 2..Len(argv0) :
                  ArgOpt(argv0[j]) = o /\ ArgText(argv0[j]).ok } }

\* the values the keyfile and the remote configuration give option o
FileValues(o) ==
    { EntryValue(e).val :
        e \in { x \in (IF keyfile.open THEN keyfile.entries ELSE {})
                        \cup (IF srv.config_manager = "remote" THEN remote ELSE {}) :
                  x.key = o /\ EntryValue(x).ok } }

DefaultValue(o) == (chassis_frontend_new @@ [address |-> NULL])[Slot(o)]

\* C5: when init_parameters runs, every registered option holds the value of
\* the command line if the command line gives one, else the value of the
\* keyfile or the remote configuration if one of them gives one, else the
\* default of chassis_frontend_new.
C5_SourcePrecedence ==
    Ran("init_parameters") =>
        \A o \in TrackedOptions \cap opts.options :
            LET v == AllSlots[Slot(o)] IN
            IF CliValues(o) # {} THEN v \in CliValues(o)
            ELSE IF FileValues(o) # {} THEN v \in FileValues(o)
            ELSE v = DefaultValue(o)

\* C6: a flag that is no core option never fails a parse before the plugins
\* are initialised; after the strict parse no flag is left in argv; a flag
\* unknown to the full registry or a residual argument ends bootstrap with a
\* non-zero exit code, so daemonize and what follows are reached only with
\* argc = 1.
C6_TwoPassPolicy ==
    /\ failed \in {"init_base_options", "parse_cmdline_1"} =>
         \E i \in 2..Len(argv0) :
            /\ ArgOpt(argv0[i]) \in BaseOptions \cup CoreOptions
            /\ ~ArgText(argv0[i]).ok
    /\ Ran("parse_cmdline_1") /\ ~Ran("parse_cmdline_2") /\ failed = "none" =>
         \A i \in 2..Len(argv0) :
            ArgOpt(argv0[i]) \notin BaseOptions \cup CoreOptions
               => \E j \in 2..Len(argv) : argv[j] = argv0[i]
    /\ Ran("check_argc") => \A i \in 2..Len(argv) : ~IsFlag(argv[i])
    /\ Ran("daemonize") => Len(argv) = 1
    /\ (\E i \in 2..Len(argv0) :
           ArgOpt(argv0[i]) \notin
               BaseOptions \cup CoreOptions \cup DeclaredOptions(srv.modules))
         => ~Ran("daemonize")
    /\ (\E i \in 2..Len(argv0) :
           /\ IsFlag(argv0[i])
           /\ ArgOpt(argv0[i]) \notin
                 BaseOptions \cup CoreOptions \cup DeclaredOptions(srv.modules))
         /\ Ran("parse_cmdline_2")
         => failed = "parse_cmdline_2"
    /\ (\E i \in 2..Len(argv0) : ~IsFlag(argv0[i])) /\ Ran("check_argc")
         => failed = "check_argc"
    /\ pc = "done" /\ failed \in {"parse_cmdline_2", "check_argc"}
         => exit_code # 0

\* an undeclared flag survives the first parse and fails the strict one
C6_Witness ==
    /\ pc = "done"
    /\ failed = "parse_cmdline_2"
    /\ \E i \in 2..Len(argv0) : argv0[i] = "--bogus"
    /\ exit_code = EXIT_FAILURE

C8_RestartLaw ==
    role = "supervisor" =>
        /\ fe.auto_restart # 0
        /\ pc = "keepalive_fork" => IsCrash(sup.last_child)
        /\ IsCrash(sup.last_child) /\ sup.ret = 0
              => pc \in {"keepalive_fork", "keepalive_wait"}
        /\ sup.last_child.kind = "exited" =>
              /\ pc \in {"keepalive_ret"} \cup FunnelPcs
              /\ sup.ret = 1
              /\ sup.child_exit_status = sup.last_child.status
              /\ pc \in FunnelPcs => exit_code = sup.last_child.status

\* a crash, a replacement, then a child that exits with status 1
C8_Witness ==
    /\ role = "supervisor"
    /\ pc = "done"
    /\ sup.spawned = 2
    /\ sup.last_child = [kind |-> "exited", status |-> EXIT_FAILURE]
    /\ exit_code = EXIT_FAILURE

\* the stages after the keepalive fork
GatedStages ==
    {"write_pidfile", "mode_check", "username_check", "init_parameters",
     "xa_log", "fdlimit", "monitor_start", "mainloop", "monitor_stop"}

\* C9 as stated: daemonization, pid file, fd limit, monitor start and mainloop
\* are executed only by the child or by a process without auto-restart, and
\* by the supervisor never; a fatal supervisor error exits non-zero.
C9_RoleGating ==
    /\ (effects.daemonized \/ \E s \in GatedStages : Ran(s))
          => role = "child" \/ fe.auto_restart = 0
    /\ role = "supervisor" =>
          ~effects.daemonized /\ \A s \in GatedStages : ~Ran(s)
    /\ sup.ret < 0 /\ pc \in FunnelPcs => exit_code # 0

\* C9 amended: pid file, fd limit, monitor start and mainloop are executed
\* only by the child or by a process without auto-restart; the supervisor
\* executes none of them and goes to the funnel; a fatal supervisor error
\* goes to the funnel with a non-zero exit code.  Daemonization runs before
\* the fork, in the process that becomes the supervisor.
C9_RoleGatingAfterFork ==
    /\ (\E s \in GatedStages : Ran(s)) => role = "child" \/ fe.auto_restart = 0
    /\ role = "supervisor" =>
          /\ \A s \in GatedStages : ~Ran(s)
          /\ pc \in {"keepalive_fork", "keepalive_wait", "keepalive_ret"}
                        \cup FunnelPcs
          /\ effects.daemonized <=> fe.daemon_mode # 0
    /\ sup.ret < 0 =>
          /\ pc \in {"keepalive_ret"} \cup FunnelPcs
          /\ \A s \in GatedStages : ~Ran(s)
          /\ pc \in FunnelPcs => exit_code # 0 /\ failed = "keepalive"

\* a daemonized supervisor that returned through the funnel
C9_Witness ==
    /\ role = "supervisor"
    /\ pc = "done"
    /\ effects.daemonized
    /\ sup.ret > 0

\* C10: every return of main_cmdline that is not the version print has
\* emitted exactly one shutdown line with the exit code, critical if
\* verbose-shutdown is set and informational otherwise; with the version flag
\* set none is emitted.
C10_OneShutdownLine ==
    pc = "done" =>
        IF res["frontend"].ptr # NULL /\ fe.print_version # 0
        THEN shutdown.lines = <<>>
        ELSE shutdown.lines =
                << [level |-> IF fe.verbose_shutdown # 0
                              THEN "critical" ELSE "message",
                    code |-> exit_code] >>

(***************************************************************************)
(* Properties of release_resouces_when_exit and init_parameters.           *)
(***************************************************************************)
\* C11: release_resouces_when_exit invoked twice on the same frontend, srv,
\* gerr, opts and log releases each of them at most once: after the second
\* invocation nothing has been released more often than it was acquired.
C11_ReleaseIdempotent ==
    shutdown.tc_log_end = 2 =>
        \A r \in Resources :
            res[r].released <= 1 /\ res[r].released <= res[r].acquired

\* m is twice d, stated without leaving the range of an int
IsDoubleOf(m, d) == m % 2 = 0 /\ m \div 2 = d

\* C12: after init_parameters the resolved default pool size is
\* default_pool_size, and the resolved maximum is max_pool_size when
\* max_pool_size >= default_pool_size and default_pool_size * 2 when
\* max_pool_size < default_pool_size, for all pairs.
C12_PoolSizeDerivation ==
    Ran("init_parameters") =>
        /\ srv.mid_idle_connections = fe.default_pool_size
        /\ fe.max_pool_size >= fe.default_pool_size =>
               srv.max_idle_connections = fe.max_pool_size
        /\ fe.max_pool_size < fe.default_pool_size =>
               IsDoubleOf(srv.max_idle_connections, fe.default_pool_size)

\* C13: after init_parameters the resolved maximum pool size is at least
\* the resolved default pool size, for every pair of 32-bit inputs.
C13_PoolSizeInvariant ==
    Ran("init_parameters") =>
        srv.max_idle_connections >= srv.mid_idle_connections

\* C14: after init_parameters the resolved down threshold is the down
\* option; the resolved recover threshold is down / 2 when recover is unset
\* (not greater than 0), down when recover > down, and recover otherwise.
C14_SlaveDelayDerivation ==
    Ran("init_parameters") =>
        LET down == fe.slave_delay_down_threshold_sec
            recover == fe.slave_delay_recover_threshold_sec
            resolved == srv.slave_delay_recover_threshold_sec
        IN /\ srv.slave_delay_down_threshold_sec = down
           /\ ~(recover > 0) => resolved + resolved = down
           /\ (recover > 0 /\ recover > down) => resolved = down
           /\ (recover > 0 /\ ~(recover > down)) => resolved = recover

\* recover = 61 s above down = 60 s was clamped to 60 s
C14_Witness ==
    /\ Ran("init_parameters")
    /\ fe.slave_delay_down_threshold_sec = Seconds(60)
    /\ fe.slave_delay_recover_threshold_sec = Seconds(61)
    /\ srv.slave_delay_recover_threshold_sec = Seconds(60)

\* C15: after init_parameters the resolved recover threshold does not exceed
\* the resolved down threshold, for every pair (down, recover).
C15_SlaveDelayInvariant ==
    Ran("init_parameters") =>
        srv.slave_delay_recover_threshold_sec
            <= srv.slave_delay_down_threshold_sec

\* the bitwise and of two naturals
RECURSIVE BitAnd(_, _)
BitAnd(a, b) ==
    IF a = 0 \/ b = 0 THEN 0
    ELSE (a % 2) * (b % 2) + 2 * BitAnd(a \div 2, b \div 2)

\* C16: for every worker_id > 0 the resolved worker id is worker_id & 0x3F
\* (64 gives 0, 65 gives 1); for worker_id <= 0 init_parameters does not
\* write the worker id, and a worker_id of 0 leaves the resolved id 0.
C16_WorkerIdMasking ==
    Ran("init_parameters") =>
        /\ fe.worker_id > 0 =>
              /\ srv.worker_id_written
              /\ srv.worker_id = BitAnd(fe.worker_id, 63)
        /\ fe.worker_id = 64 => srv.worker_id = 0
        /\ fe.worker_id = 65 => srv.worker_id = 1
        /\ fe.worker_id <= 0 => ~srv.worker_id_written
        /\ fe.worker_id = 0 => srv.worker_id = 0

\* worker_id 65 was resolved to 1
C16_Witness ==
    /\ Ran("init_parameters")
    /\ fe.worker_id = 65
    /\ srv.worker_id_written
    /\ srv.worker_id = 1

\* C17: whenever a worker_id option was accepted and the mainloop is
\* reached, the resolved worker id handed to the engine lies in the
\* documented range 1..63.
C17_WorkerIdRange ==
    (Ran("mainloop") /\ fe.worker_id # 0) => srv.worker_id \in 1..63

\* C18: after init_parameters the resolved max-allowed-packet lies between
\* MAX_ALLOWED_PACKET_FLOOR and MAX_ALLOWED_PACKET_CEIL and equals the
\* option when the option already lies between them.
C18_MaxAllowedPacketBounded ==
    Ran("init_parameters") =>
        /\ MAX_ALLOWED_PACKET_FLOOR <= srv.cetus_max_allowed_packet
        /\ srv.cetus_max_allowed_packet <= MAX_ALLOWED_PACKET_CEIL
        /\ (/\ MAX_ALLOWED_PACKET_FLOOR <= fe.cetus_max_allowed_packet
            /\ fe.cetus_max_allowed_packet <= MAX_ALLOWED_PACKET_CEIL)
              => srv.cetus_max_allowed_packet = fe.cetus_max_allowed_packet

\* the smallest int was raised to the floor
C18_Witness ==
    /\ Ran("init_parameters")
    /\ fe.cetus_max_allowed_packet = INT_MIN
    /\ srv.cetus_max_allowed_packet = MAX_ALLOWED_PACKET_FLOOR

(***************************************************************************)
(* Properties of the plugin selection.                                     *)
(***************************************************************************)
\* the plugin names the command line supplies, in order
SuppliedPluginNames ==
    LET flags == SelectSeq(argv0, LAMBDA a : ArgOpt(a) = "plugins")
    IN [i \in 1..Len(flags) |-> ArgText(flags[i]).val]

\* C19: if no plugin name was supplied by the time the plugins are loaded,
\* the list passed to the plugin loader is exactly the one built-in default
\* name; if any name was supplied the list is what was supplied.
C19_DefaultPluginSelection ==
    LET expected == IF SuppliedPluginNames = <<>>
                    THEN <<"proxy">>
                    ELSE SuppliedPluginNames
    IN /\ Ran("default_plugins") => fe.plugin_names = expected
       /\ (Ran("load_plugins") /\ failed # "load_plugins") =>
              srv.modules = expected

\* nothing was supplied and the loader was handed the default alone
C19_Witness ==
    /\ Ran("load_plugins")
    /\ SuppliedPluginNames = <<>>
    /\ fe.plugin_names = <<"proxy">>
    /\ srv.modules = <<"proxy">>

\* C20: when both shard and proxy are in the selected plugin list, bootstrap
\* fails with a non-zero exit code, and it fails before plugin
\* initialisation completes, hence before daemonize, the keepalive fork and
\* the pid file write.
C20_ModeConflictBeforeInit ==
    ({"shard", "proxy"}
        \subseteq { fe.plugin_names[i] : i \in 1..Len(fe.plugin_names) }) =>
        /\ ~srv.plugins_inited
        /\ ~Ran("daemonize") /\ ~Ran("keepalive") /\ ~Ran("write_pidfile")
        /\ pc = "done" => exit_code # EXIT_SUCCESS

(***************************************************************************)
(* Properties of the monitor thread, the version path and the crash        *)
(* handler.                                                                *)
(***************************************************************************)
\* C21: the monitor thread is started only after every earlier stage
\* succeeded and immediately before the mainloop, and whenever it was
\* started it has been stopped by the time the shutdown location is set and
\* by the time the funnel frees the service object.
C21_MonitorLifecycle ==
    /\ Ran("monitor_start") =>
          /\ IsPrefix(SubSeq(StageSeq, 1, StageIndex("monitor_start")), trace)
          /\ failed \in {"none", "mainloop"}
          /\ Occurrences("monitor_start") = 1
    /\ (monitor.starts > 0 /\ shutdown.location_set) => ~monitor.running
    /\ (monitor.starts > 0 /\ res["srv"].released > 0) => ~monitor.running

\* the stages the version path must not execute
AfterVersionStages ==
    {"parse_cmdline_2", "check_argc", "daemonize", "keepalive",
     "write_pidfile", "fdlimit", "monitor_start", "mainloop"}

\* C22: with the version flag set and every stage up to plugin
\* initialisation successful, the versions are printed and the process
\* leaves through the funnel with exit code 0, without the strict parse,
\* daemonize, the keepalive fork, the pid file write, the fd-limit change,
\* the monitor start or the mainloop.
C22_VersionPathTerminal ==
    fe.print_version # 0 =>
        /\ \A s \in AfterVersionStages : ~Ran(s)
        /\ ~effects.daemonized /\ sup.spawned = 0
        /\ ~effects.pidfile_written /\ ~effects.fdlimit_set
        /\ monitor.starts = 0
        /\ Ran("print_plugin_versions") =>
              /\ pc \in FunnelPcs
              /\ failed = "none"
              /\ exit_code = EXIT_SUCCESS
              /\ effects.versions_printed = 1
              /\ effects.plugin_versions_printed
              /\ pc = "done" => shutdown.funnel = 1

\* a run of cetus --version that printed the versions and returned 0
C22_Witness ==
    /\ pc = "done"
    /\ fe.print_version # 0
    /\ Ran("print_plugin_versions")
    /\ effects.plugin_versions_printed
    /\ exit_code = EXIT_SUCCESS

\* C23: every invocation of sigsegv_handler logs at most 16 stack frames at
\* warning level and then ends the process by abort: once the handler ran
\* the interrupted code is never resumed and main_cmdline never returns.
C23_HandlerNonResumable ==
    sigsegv.invocations > 0 =>
        /\ sigsegv.invocations = 1
        /\ sigsegv.frames <= 16
        /\ sigsegv.level = "warning"
        /\ pc = "aborted"
        /\ pc # sigsegv.interrupted

\* a stack deeper than the array was cut to 16 frames during the mainloop
C23_Witness ==
    /\ pc = "aborted"
    /\ sigsegv.interrupted = "mainloop"
    /\ sigsegv.frames = 16

\* C24: the SIGSEGV handler is installed at most once per process and never
\* under valgrind, and on every exit path on which it was installed the
\* funnel has restored the default disposition before
\* release_resouces_when_exit frees anything: the handler is not the
\* disposition while or after resources are released.
C24_HandlerLifecycle ==
    /\ sigsegv.installs <= 1
    /\ sigsegv.valgrind = "yes" => (~sigsegv.handler /\ sigsegv.installs = 0)
    /\ sigsegv.handler => (sigsegv.installs = 1 /\ sigsegv.resets = 0)
    /\ pc \in {"release", "slow_close", "done"} =>
          /\ ~sigsegv.handler
          /\ sigsegv.resets = sigsegv.installs
    /\ (shutdown.release_order # << >> \/ shutdown.tc_log_end > 0) =>
          ~sigsegv.handler

\* the handler was installed, the funnel reset it and the resources were
\* then released
C24_Witness ==
    /\ pc = "done"
    /\ sigsegv.installs = 1
    /\ sigsegv.resets = 1
    /\ ~sigsegv.handler
    /\ res["frontend"].released = 1

\* the log stage opened the log file
LogWasOpened ==
    /\ Ran("log_open")
    /\ failed # "log_open"
    /\ log.log_filename # NullPath

ReleaseOrder == << "gerr", "srv", "opts", "log", "frontend" >>

\* C25: on every exit path the funnel releases in the order error object,
\* service object, option registry, log, frontend record; the log opened by
\* the log stage stays open until release_resouces_when_exit runs, the
\* funnel's shutdown line and every g_debug and every release of the error
\* object, the service object and the option registry come before
\* chassis_log_free, and no message is emitted after it.
C25_ReleaseOrder ==
    LET ev == shutdown.events
        ord == shutdown.release_order
        freed(r) == \E i \in 1..Len(ord) : ord[i] = r
        kept(r) == freed(r)
    IN
    /\ ord = SelectSeq(ReleaseOrder, kept)
    /\ (pc \notin {"slow_close", "done"}) =>
          /\ ev = << >>
          /\ ord = << >>
          /\ LogWasOpened => log.is_open
    /\ (pc \in {"slow_close", "done"}) =>
          /\ ~log.is_open
          /\ Len(ev) >= 4
          /\ \A r \in {"srv", "opts", "log", "frontend"} :
                res[r].acquired > 0 => freed(r)
    /\ \A i \in 1..Len(ev) :
          /\ ev[i].op \in {"g_debug", "gerr", "srv", "opts", "log"} =>
                ~ev[i].log_closed
          /\ ev[i].op \in {"tc_log_end", "frontend"} =>
                (ev[i].log_closed <=> freed("log"))
    /\ \A i, j \in 1..Len(ev) :
          (ev[i].op = "log" /\ i < j) => ev[j].op \in {"tc_log_end", "frontend"}

\* a process whose log file was open went through the whole release
C25_Witness ==
    /\ pc = "done"
    /\ LogWasOpened
    /\ shutdown.release_order = << "srv", "opts", "log", "frontend" >>
    /\ shutdown.lines # << >>
    /\ Len(shutdown.events) = 8

\* C26: the log file, the pid file, the plugin directory, the config
\* directory and the xa-log file are resolved against the base directory
\* only after init_basedir established it, every path handed to an open call
\* (local config discovery, log open, plugin load, pid file write, xa-log
\* init) is the resolved one, and no stage after resolve_path, the strict
\* second parse included, puts an unresolved value back.
C26_PathResolutionOrdering ==
    LET o == effects.opened
        Resolved(p) == /\ IsAbsolute(p)
                       /\ p = chassis_resolve_path(srv.base_dir, p)
                       /\ IsPrefix(fe.base_dir, p)
                       /\ Len(p) > Len(fe.base_dir)
        Before(a, b) == \E j \in 1..Len(trace) :
                            /\ trace[j] = b
                            /\ \E i \in 1..(j - 1) : trace[i] = a
    IN
    /\ \A k \in DOMAIN o : o[k] # NullPath =>
          /\ Resolved(o[k])
          /\ Before("init_basedir", IF k = "xa" THEN "xa_log" ELSE "resolve_path")
          /\ srv.base_dir = fe.base_dir
          /\ fe.base_dir # NullPath
    /\ (Ran("resolve_path") \/ Ran("xa_log")) => Before("init_basedir",
            IF Ran("resolve_path") THEN "resolve_path" ELSE "xa_log")
    /\ \A st \in {"local_config", "log_open", "load_plugins", "write_pidfile",
                  "xa_log"} : Ran(st) => Before("resolve_path", st)
    /\ Ran("resolve_path") =>
          /\ \A p \in {fe.log_filename, fe.pid_file} :
                p # NullPath => Resolved(p)
          /\ Resolved(fe.plugin_dir)
          /\ Resolved(fe.conf_dir)
          /\ srv.conf_dir = fe.conf_dir
    /\ o.conf # NullPath => o.conf = srv.conf_dir
    /\ o.log # NullPath => (o.log = fe.log_filename /\ o.log = log.log_filename)
    /\ o.plugin # NullPath => o.plugin = fe.plugin_dir
    /\ o.pid # NullPath => o.pid = fe.pid_file
    /\ o.xa # NullPath => o.xa = fe.log_xa_filename

\* a relative pid file given on the command line was written at its place
\* under the base directory, after the strict parse ran
C26_Witness ==
    /\ Ran("parse_cmdline_2")
    /\ effects.opened.pid = BaseDirOfExecutable \o <<"cetus.pid">>
    /\ effects.opened.conf = BaseDirOfExecutable \o <<"conf">>
    /\ effects.opened.plugin = BaseDirOfExecutable \o <<"lib", "cetus", "plugins">>
    /\ effects.opened.xa = BaseDirOfExecutable \o <<"logs", "xa.log">>

\* C27: on every exit path the funnel closes the slow-query log handle if
\* and only if the slow-query log stage ran and returned an open handle; on
\* a path that reaches the funnel before that stage the handle has a defined
\* not-opened value and nothing is closed.
C27_SlowQueryLogHandle ==
    /\ (pc \in {"slow_close", "done"} /\ ~Ran("slow_query_log")) =>
          /\ slow_query_log_fp.value = "NULL"
          /\ slow_query_log_fp.fclose_calls = 0
    /\ pc = "done" =>
          (slow_query_log_fp.fclose_calls = 1
              <=> (Ran("slow_query_log") /\ slow_query_log_fp.value = "open"))
    /\ slow_query_log_fp.fclose_calls <= 1

====
